---- MODULE Spec2Model ----
(***************************************************************************)
(* A model of the task board of src/src/App.js: the zustand store          *)
(* useTaskTracker (create / update / remove, persisted under one           *)
(* localStorage key), the column filter with its placeholder card, the     *)
(* drag-and-drop glue and the statistics shown above the board.            *)
(***************************************************************************)
EXTENDS Integers, Sequences, FiniteSets, TLC

(* ------------------------------- bounds -------------------------------- *)

\* Tasks one tab's list may hold, and uuid() calls, in the store-level runs.
MaxTasks == 3
MaxUuid == 3
\* The same two caps for the runs in which a write may fail: there the stored
\* list can differ from the list in memory.
MaxFailTasks == 2
MaxFailUuid == 3
\* The cap on uuid() calls in the runs with two tabs.
MaxTabUuid == 1
\* The same two caps for the runs that drive the rendered board: there every
\* render of an empty column calls uuid() once more.
MaxBoardTasks == 2
MaxBoardUuid == 13
MaxCounted == 80

(* ------------------------------ constants ------------------------------ *)

\* Status (App.js 225-230).  The literals of inwork, done and empty are
\* Cyrillic in the source; the model names them in ASCII.
Status == [backlog |-> "Backlog", inwork |-> "InWork", done |-> "Done", empty |-> "Empty"]

\* The three statuses a column is rendered for (App.js 196, 204, 212), in
\* the order the columns are rendered.
Columns == <<Status.backlog, Status.inwork, Status.done>>

RealStatuses == {Columns[i] : i \in DOMAIN Columns}

\* Every value Status holds: what a caller of the store may pass as listId.
AnyStatus == {Status.backlog, Status.inwork, Status.done, Status.empty}

\* Browser tabs that load the page against the same localStorage.
Tabs == {1, 2}

\* The tab whose board is rendered and driven by gestures.
BoardTab == 1

\* Text typed into the two inputs of the dialog (App.js 144-145).
Titles == {"", "T"}
Descriptions == {"D"}
BoardTitles == {"", "T"}
BoardDescriptions == {"", "D"}

\* The version persist writes beside the state under its one key,
\* "task-tracker-store" (App.js 37-40); no version option is given.
Version == 0

VARIABLES
    tasks,      \* tasks[t]: the store's tasks array in tab t (App.js 14)
    mode,       \* mode[t]: "closed", "persisting" (storage available) or "memory"
    storage,    \* localStorage: is the key set, and the JSON text under it
    uuidCount,  \* how many values uuid() has returned so far
    board,      \* board[s]: the cards rendered in the column of status s
    everIds,    \* everIds[t]: every id that was ever in tab t's list, reloads included
    phIds,      \* every id ever given to a placeholder card
    foreign,    \* foreign[t]: ids other tabs created since tab t loaded
    stats,      \* [backlogCount, inworkCount, doneCount, percent] as displayed
    taskTitle,        \* the text of the dialog's title input (App.js 130)
    taskDescription,  \* the text of the dialog's textarea (App.js 131)
    lastCall    \* the last operation, its arguments, whether a task matched, whether it threw

vars ==
    <<tasks, mode, storage, uuidCount, board, stats, taskTitle, taskDescription,
      everIds, phIds, foreign, lastCall>>

(* ---------------------------- pure functions --------------------------- *)

Ids(ts) == {ts[i].id : i \in DOMAIN ts}

\* create that puts the old tasks behind the new one in reverse order.
CreateTasksReversing(ts, id, title, description) ==
    <<[id |-> id, title |-> title, description |-> description,
       status |-> Status.backlog]>> \o [i \in DOMAIN ts |-> ts[Len(ts) + 1 - i]]

\* create (App.js 15-25): the new task in front of the spread old list.
CreateTasks(ts, id, title, description) ==
    <<[id |-> id, title |-> title, description |-> description,
       status |-> Status.backlog]>> \o ts

\* update without the test of the id: every task gets the status.
UpdateTasksAll(ts, taskId, listId) ==
    [i \in DOMAIN ts |-> [ts[i] EXCEPT !.status = listId]]

\* update (App.js 26-30): map, replacing status where the id matches.
UpdateTasks(ts, taskId, listId) ==
    [i \in DOMAIN ts |->
        IF ts[i].id = taskId THEN [ts[i] EXCEPT !.status = listId] ELSE ts[i]]

KeepsTask(task, taskId) == taskId # task.id

\* remove that returns the tasks it keeps in reverse order.
RemoveTasksReversing(ts, taskId) ==
    LET kept == SelectSeq(ts, LAMBDA task : KeepsTask(task, taskId))
    IN  [i \in DOMAIN kept |-> kept[Len(kept) + 1 - i]]

\* remove (App.js 31-35): filter, keeping the tasks of another id.
RemoveTasks(ts, taskId) == SelectSeq(ts, LAMBDA task : KeepsTask(task, taskId))

\* JSON.stringify of one task: its own properties in insertion order.
StringifyTask(task) ==
    <<<<"id", task.id>>, <<"title", task.title>>,
      <<"description", task.description>>, <<"status", task.status>>>>

\* What persist writes (App.js 12, 37-40): JSON.stringify of
\* { state: { tasks }, version }; the three functions of the state are
\* dropped by JSON.stringify.
Stringify(ts) ==
    <<<<"state", <<<<"tasks", [i \in DOMAIN ts |-> StringifyTask(ts[i])]>>>>>>,
      <<"version", Version>>>>

\* The value of a key of a parsed JSON object.
Member(obj, key) == obj[CHOOSE i \in DOMAIN obj : obj[i][1] = key][2]

ParseTask(obj) ==
    [id |-> Member(obj, "id"), title |-> Member(obj, "title"),
     description |-> Member(obj, "description"), status |-> Member(obj, "status")]

\* JSON.parse of the stored text, and the tasks of its state.
Parse(text) ==
    LET arr == Member(Member(text, "state"), "tasks")
    IN  [i \in DOMAIN arr |-> ParseTask(arr[i])]

\* The tasks a tab loading now would start with (persist's hydration: the
\* stored state merged over the initial state; tasks: [] when the key is unset).
Hydrated(st) == IF st.present THEN Parse(st.text) ELSE <<>>

\* taskFilter without the placeholder: an empty column stays empty.
TaskFilterBare(ts, status, id) == SelectSeq(ts, LAMBDA task : task.status = status)

\* taskFilter (App.js 87-93); id is what uuid() returns if it is called.
TaskFilter(ts, status, id) ==
    LET result == SelectSeq(ts, LAMBDA task : task.status = status)
    IN  IF Len(result) > 0 THEN result ELSE <<[id |-> id, status |-> Status.empty]>>

IsEmptyColumn(ts, status) == \A i \in DOMAIN ts : ts[i].status # status

\* How many of the first k columns call uuid() in one render.
EmptyUpTo(ts, k) == Cardinality({j \in 1..k : IsEmptyColumn(ts, Columns[j])})

\* One render of the three columns (App.js 196-216): taskFilterList is called
\* for Backlog, then InWork, then Done; used is the number of uuids handed
\* out before the render.
Render(ts, used) ==
    [s \in RealStatuses |->
        LET k == CHOOSE j \in DOMAIN Columns : Columns[j] = s
        IN  TaskFilter(ts, s, used + EmptyUpTo(ts, k))]

\* The ids of the placeholder cards of a rendered board.
Placeholders(b) ==
    UNION {{b[s][i].id : i \in {j \in DOMAIN b[s] : b[s][j].status = Status.empty}} :
              s \in RealStatuses}

\* The loop of the statistics memo (App.js 104-125): one counter per case.
RECURSIVE Counter(_, _)
Counter(ts, status) ==
    IF ts = <<>> THEN 0
    ELSE (IF Head(ts).status = status THEN 1 ELSE 0) + Counter(Tail(ts), status)

\* ---- the arithmetic of percent (App.js 126-127): JavaScript numbers are
\* IEEE 754 doubles, with a significand of 53 bits.  The doubles that occur
\* here lie in 0..100 and are kept exactly as [nan, limbs, shift]: limbs is
\* a whole number written in five digits of base 2^13, highest first (the
\* highest digit may exceed the base), and the value is limbs / 2^(52 + shift).

LimbBits == 13
Limb == 2^LimbBits

NaN == [nan |-> TRUE, limbs |-> <<0, 0, 0, 0, 0>>, shift |-> 0]
Zero == [nan |-> FALSE, limbs |-> <<0, 0, 0, 0, 0>>, shift |-> 0]

\* limbs * k + carry, exactly.
RECURSIVE Scale(_, _, _)
Scale(limbs, k, carry) ==
    IF Len(limbs) = 1 THEN <<limbs[1] * k + carry>>
    ELSE LET t == limbs[Len(limbs)] * k + carry
         IN  Append(Scale(SubSeq(limbs, 1, Len(limbs) - 1), k, t \div Limb), t % Limb)

\* The next n digits of the long division r / den, and the remainder left.
RECURSIVE DivLimbs(_, _, _)
DivLimbs(r, den, n) ==
    IF n = 0 THEN [digits |-> <<>>, rem |-> r]
    ELSE LET rest == DivLimbs((r * Limb) % den, den, n - 1)
         IN  [digits |-> <<(r * Limb) \div den>> \o rest.digits, rem |-> rest.rem]

\* num / den for two counters, 0 <= num <= den: 0 / 0 is NaN; else the
\* quotient is scaled by 2^shift into 1..2, its first 53 bits are divided out
\* and the rest is rounded to nearest, a tie to the even significand.
Divide(num, den) ==
    IF den = 0 THEN NaN
    ELSE IF num = 0 THEN Zero
    ELSE LET shift == CHOOSE k \in 0..30 :
                        2^k * num >= den /\ \A j \in 0..(k - 1) : 2^j * num < den
             r == 2^shift * num
             q == DivLimbs(r % den, den, 4)
             limbs == <<r \div den>> \o q.digits
             up == \/ 2 * q.rem > den
                   \/ 2 * q.rem = den /\ limbs[5] % 2 = 1
         IN  [nan |-> FALSE, limbs |-> IF up THEN Scale(limbs, 1, 1) ELSE limbs,
              shift |-> shift]

\* x * 100 (App.js 126): the exact product has 6 or 7 bits more than a
\* significand holds; they are rounded away, a tie to the even significand.
Times100(x) ==
    IF x.nan \/ x = Zero THEN x
    ELSE LET p == Scale(x.limbs, 100, 0)
             unit == IF p[1] < 128 THEN 64 ELSE 128
             low == p[5] % unit
             up == \/ 2 * low > unit
                   \/ 2 * low = unit /\ (p[5] \div unit) % 2 = 1
             cut == [p EXCEPT ![5] = p[5] - low]
         IN  [nan |-> FALSE, limbs |-> IF up THEN Scale(cut, 1, unit) ELSE cut,
              shift |-> x.shift]

\* x.toFixed(1) (App.js 127) for a double x in 0..100, as the number of
\* tenths it prints: the n with n / 10 nearest to x, the larger n when two
\* are as near, that is the whole part of 10 * x + 1/2.
ToFixed1(x) ==
    LET t == Scale(x.limbs, 10, 0)
        half == IF x.shift = 0 THEN t[2] \div 2^(LimbBits - 1)
                ELSE (t[1] \div 2^(x.shift - 1)) % 2
    IN  t[1] \div 2^(x.shift) + half

\* percent with the tasks in work left out of the divisor.
PercentOfOthers(backlogCounter, inworkCounter, doneCounter) ==
    LET percent == Times100(Divide(doneCounter, backlogCounter + doneCounter))
    IN  IF percent.nan THEN [text |-> FALSE, tenths |-> 0]
        ELSE [text |-> TRUE, tenths |-> ToFixed1(percent)]

\* percent (App.js 126-127): the number 0 when the product is NaN, else
\* the text toFixed(1) returns.
Percent(backlogCounter, inworkCounter, doneCounter) ==
    LET percent ==
            Times100(Divide(doneCounter, backlogCounter + doneCounter + inworkCounter))
    IN  IF percent.nan THEN [text |-> FALSE, tenths |-> 0]
        ELSE [text |-> TRUE, tenths |-> ToFixed1(percent)]

\* The statistics memo (App.js 103-128).
Statistics(ts) ==
    LET backlogCounter == Counter(ts, Status.backlog)
        inworkCounter == Counter(ts, Status.inwork)
        doneCounter == Counter(ts, Status.done)
    IN  [backlogCount |-> backlogCounter, inworkCount |-> inworkCounter,
         doneCount |-> doneCounter,
         percent |-> Percent(backlogCounter, inworkCounter, doneCounter)]

NoCall ==
    [op |-> "none", tab |-> 0, taskId |-> 0, title |-> "", description |-> "",
     status |-> "", found |-> FALSE, threw |-> FALSE]

EmptyBoard == [s \in RealStatuses |-> <<>>]

NoStats == Statistics(<<>>)

(* -------------------------------- state -------------------------------- *)

\* Before any tab has loaded the page: nothing stored, nothing rendered.
Init ==
    /\ tasks = [t \in Tabs |-> <<>>]
    /\ mode = [t \in Tabs |-> "closed"]
    /\ storage = [present |-> FALSE, text |-> <<>>]
    /\ uuidCount = 0
    /\ board = EmptyBoard
    /\ stats = NoStats
    /\ taskTitle = ""
    /\ taskDescription = ""
    /\ everIds = [t \in Tabs |-> {}]
    /\ phIds = {}
    /\ foreign = [t \in Tabs |-> {}]
    /\ lastCall = NoCall

\* set() that writes the list as it was before the call.
SetTasksStale(t, newTasks, fail) ==
    /\ tasks' = [tasks EXCEPT ![t] = newTasks]
    /\ storage' = IF mode[t] = "persisting" /\ ~fail
                  THEN [present |-> TRUE, text |-> Stringify(tasks[t])]
                  ELSE storage
    /\ everIds' = [everIds EXCEPT ![t] = @ \cup Ids(newTasks)]

\* set() that merges the stored tasks it does not hold into what it writes.
SetTasksMerging(t, newTasks, fail) ==
    /\ tasks' = [tasks EXCEPT ![t] = newTasks]
    /\ storage' = IF mode[t] = "persisting" /\ ~fail
                  THEN [present |-> TRUE,
                        text |-> Stringify(newTasks \o
                            SelectSeq(Hydrated(storage),
                                      LAMBDA task : task.id \notin Ids(newTasks)))]
                  ELSE storage
    /\ everIds' = [everIds EXCEPT ![t] = @ \cup Ids(newTasks)]

\* The tail of every set() of the store (App.js 12-13): the state is
\* replaced first, then persist writes the whole list under the key.  A
\* write that fails (quota) throws out of set(), after the state changed.
\* A tab that found no storage at load keeps its state in memory only.
SetTasks(t, newTasks, fail) ==
    /\ tasks' = [tasks EXCEPT ![t] = newTasks]
    /\ storage' = IF mode[t] = "persisting" /\ ~fail
                  THEN [present |-> TRUE, text |-> Stringify(newTasks)]
                  ELSE storage
    /\ everIds' = [everIds EXCEPT ![t] = @ \cup Ids(newTasks)]

\* Does the write of this call throw out of set()?
Threw(t, fail) == mode[t] = "persisting" /\ fail

\* Loading the page in tab t (App.js 11-42): the store is created and
\* hydrated from the key, once.  The release of zustand is not pinned by the
\* source: persist of 4.x ends hydration by writing the hydrated state back
\* under the key (set(merged, true); setItem()), later releases write only
\* after a migration; writes chooses between the two.  A write that fails
\* here is caught inside hydration, not thrown, and leaves the key as it
\* was, which is the outcome of writes = FALSE.
Load(t, available, writes) ==
    /\ mode[t] = "closed"
    /\ mode' = [mode EXCEPT ![t] = IF available THEN "persisting" ELSE "memory"]
    /\ tasks' = [tasks EXCEPT ![t] = IF available THEN Hydrated(storage) ELSE <<>>]
    /\ everIds' = [everIds EXCEPT ![t] = @ \cup Ids(tasks'[t])]
    /\ foreign' = [foreign EXCEPT ![t] = {}]
    /\ lastCall' = [NoCall EXCEPT !.op = "load", !.tab = t]
    /\ storage' = IF available /\ writes
                  THEN [present |-> TRUE, text |-> Stringify(Hydrated(storage))]
                  ELSE storage

\* Closing tab t: its memory is gone, the storage stays.
Unload(t) ==
    /\ mode[t] # "closed"
    /\ mode' = [mode EXCEPT ![t] = "closed"]
    /\ tasks' = [tasks EXCEPT ![t] = <<>>]
    /\ UNCHANGED everIds
    /\ foreign' = [foreign EXCEPT ![t] = {}]
    /\ lastCall' = [NoCall EXCEPT !.op = "unload", !.tab = t]
    /\ UNCHANGED storage

\* create({title, description}) in tab t (App.js 15-25); the id is the
\* next value of uuid().
Create(t, title, description, fail) ==
    /\ mode[t] # "closed"
    /\ SetTasks(t, CreateTasks(tasks[t], uuidCount + 1, title, description), fail)
    /\ foreign' = [u \in Tabs |->
                     IF u # t /\ mode[u] # "closed"
                     THEN foreign[u] \cup {uuidCount + 1} ELSE foreign[u]]
    /\ lastCall' = [NoCall EXCEPT !.op = "create", !.tab = t, !.taskId = uuidCount + 1,
                       !.title = title, !.description = description,
                       !.threw = Threw(t, fail)]
    /\ UNCHANGED mode

\* update(taskId, listId) in tab t (App.js 26-30).
Update(t, taskId, listId, fail) ==
    /\ mode[t] # "closed"
    /\ SetTasks(t, UpdateTasks(tasks[t], taskId, listId), fail)
    /\ lastCall' = [NoCall EXCEPT !.op = "update", !.tab = t, !.taskId = taskId,
                       !.status = listId, !.found = taskId \in Ids(tasks[t]),
                       !.threw = Threw(t, fail)]
    /\ UNCHANGED <<mode, foreign>>

\* remove(taskId) in tab t (App.js 31-35).
Remove(t, taskId, fail) ==
    /\ mode[t] # "closed"
    /\ SetTasks(t, RemoveTasks(tasks[t], taskId), fail)
    /\ lastCall' = [NoCall EXCEPT !.op = "remove", !.tab = t, !.taskId = taskId,
                       !.found = taskId \in Ids(tasks[t]), !.threw = Threw(t, fail)]
    /\ UNCHANGED <<mode, foreign>>

\* No view is mounted: nothing is rendered and only create calls uuid().
Headless(calls) ==
    /\ uuidCount' = uuidCount + calls
    /\ UNCHANGED <<board, stats, taskTitle, taskDescription, phIds>>

\* The ids a caller may name: every uuid handed out so far, and one more.
CallIds == 1..(MaxUuid + 1)

(* ------------- one tab, working storage, any arguments ----------------- *)

LoadPage == \E writes \in BOOLEAN : Load(BoardTab, TRUE, writes) /\ Headless(0)
ClosePage == Unload(BoardTab) /\ Headless(0)
CallCreate ==
    \E title \in Titles, d \in Descriptions :
        /\ Len(tasks[BoardTab]) < MaxTasks
        /\ uuidCount < MaxUuid
        /\ Create(BoardTab, title, d, FALSE)
        /\ Headless(1)
CallUpdate ==
    \E id \in CallIds, s \in AnyStatus : Update(BoardTab, id, s, FALSE) /\ Headless(0)
CallRemove == \E id \in CallIds : Remove(BoardTab, id, FALSE) /\ Headless(0)

Next == LoadPage \/ ClosePage \/ CallCreate \/ CallUpdate \/ CallRemove

Spec == Init /\ [][Next]_vars

(* ------------------- two tabs on one working storage ------------------- *)

TabIds == 1..(MaxTabUuid + 1)

LoadTab == \E t \in Tabs, writes \in BOOLEAN : Load(t, TRUE, writes) /\ Headless(0)
CloseTab == \E t \in Tabs : Unload(t) /\ Headless(0)
TabCreate ==
    \E t \in Tabs, title \in Titles, d \in Descriptions :
        /\ Len(tasks[t]) < MaxTasks
        /\ uuidCount < MaxTabUuid
        /\ Create(t, title, d, FALSE)
        /\ Headless(1)
TabUpdate ==
    \E t \in Tabs, id \in TabIds, s \in RealStatuses : Update(t, id, s, FALSE) /\ Headless(0)
TabRemove == \E t \in Tabs, id \in TabIds : Remove(t, id, FALSE) /\ Headless(0)

NextTabs == LoadTab \/ CloseTab \/ TabCreate \/ TabUpdate \/ TabRemove

SpecTabs == Init /\ [][NextTabs]_vars

(* ----- one tab; storage may be missing at load, writes may fail -------- *)

FailIds == 1..(MaxFailUuid + 1)

LoadAny ==
    \E available \in BOOLEAN, writes \in BOOLEAN :
        Load(BoardTab, available, writes) /\ Headless(0)
CloseAny == Unload(BoardTab) /\ Headless(0)
FailCreate ==
    \E title \in Titles, d \in Descriptions, fail \in BOOLEAN :
        /\ Len(tasks[BoardTab]) < MaxFailTasks
        /\ uuidCount < MaxFailUuid
        /\ Create(BoardTab, title, d, fail)
        /\ Headless(1)
FailUpdate ==
    \E id \in FailIds, s \in RealStatuses, fail \in BOOLEAN :
        Update(BoardTab, id, s, fail) /\ Headless(0)
FailRemove == \E id \in FailIds, fail \in BOOLEAN : Remove(BoardTab, id, fail) /\ Headless(0)

NextFail == LoadAny \/ CloseAny \/ FailCreate \/ FailUpdate \/ FailRemove

SpecFail == Init /\ [][NextFail]_vars

(* ------------- the rendered board of one tab, driven by gestures ------- *)

\* One render of App (App.js 80-223): the columns are filtered again, each
\* empty one calling uuid(), and the statistics are recomputed.  App renders
\* after every set() of the store (App.js 81) and after every change of its
\* own state (App.js 130-131).  calls is the number of uuids the handler
\* itself used before the render.
Paint(calls) ==
    LET ts == tasks'[BoardTab]
        used == uuidCount + calls
    IN  /\ used + EmptyUpTo(ts, Len(Columns)) <= MaxBoardUuid
        /\ uuidCount' = used + EmptyUpTo(ts, Len(Columns))
        /\ board' = Render(ts, used)
        /\ stats' = Statistics(ts)
        /\ phIds' = phIds \cup Placeholders(board')

\* Every rendered card, by column and position.
Cards == {<<s, i>> \in RealStatuses \X (1..MaxBoardTasks) : i <= Len(board[s])}

\* Opening the page: the store is hydrated and App renders, its inputs empty.
OpenBoard ==
    \E writes \in BOOLEAN :
        /\ Load(BoardTab, TRUE, writes)
        /\ taskTitle' = ""
        /\ taskDescription' = ""
        /\ Paint(0)

\* Closing the page: nothing is rendered any more.
CloseBoard ==
    /\ Unload(BoardTab)
    /\ board' = EmptyBoard
    /\ stats' = NoStats
    /\ taskTitle' = ""
    /\ taskDescription' = ""
    /\ UNCHANGED <<uuidCount, phIds>>

\* Typing in the title input (App.js 144): onChange sets taskTitle, and App
\* renders again; the store is not called.
TypeTitle ==
    \E text \in BoardTitles :
        /\ mode[BoardTab] # "closed"
        /\ text # taskTitle
        /\ taskTitle' = text
        /\ UNCHANGED <<tasks, mode, storage, everIds, foreign, lastCall, taskDescription>>
        /\ Paint(0)

\* Typing in the textarea (App.js 145).
TypeDescription ==
    \E text \in BoardDescriptions :
        /\ mode[BoardTab] # "closed"
        /\ text # taskDescription
        /\ taskDescription' = text
        /\ UNCHANGED <<tasks, mode, storage, everIds, foreign, lastCall, taskTitle>>
        /\ Paint(0)

\* The button of the dialog (App.js 147-156): create is called with the two
\* texts, then both are cleared; App renders once after the handler.
ClickCreate ==
    /\ Len(tasks[BoardTab]) < MaxBoardTasks
    /\ Create(BoardTab, taskTitle, taskDescription, FALSE)
    /\ taskDescription' = ""
    /\ taskTitle' = ""
    /\ Paint(1)

\* A status button of a card's menu (App.js 98, 251-253); the menu is
\* rendered only when the card is not the placeholder (App.js 246).
MenuUpdate ==
    \E c \in Cards, s \in RealStatuses :
        /\ board[c[1]][c[2]].status # Status.empty
        /\ Update(BoardTab, board[c[1]][c[2]].id, s, FALSE)
        /\ UNCHANGED <<taskTitle, taskDescription>>
        /\ Paint(0)

\* The delete button of a card's menu (App.js 98, 254).
MenuRemove ==
    \E c \in Cards :
        /\ board[c[1]][c[2]].status # Status.empty
        /\ Remove(BoardTab, board[c[1]][c[2]].id, FALSE)
        /\ UNCHANGED <<taskTitle, taskDescription>>
        /\ Paint(0)

\* Dragging a card and dropping it on a column (App.js 48-71, 83-85): every
\* Item is a drag source carrying its id, every List calls
\* dropHandler(listId)(item.id), which calls update(item.id, listId).
DragDrop ==
    \E c \in Cards, target \in RealStatuses :
        /\ Update(BoardTab, board[c[1]][c[2]].id, target, FALSE)
        /\ UNCHANGED <<taskTitle, taskDescription>>
        /\ Paint(0)

NextBoard ==
    \/ OpenBoard \/ CloseBoard \/ TypeTitle \/ TypeDescription
    \/ ClickCreate \/ MenuUpdate \/ MenuRemove \/ DragDrop

SpecBoard == Init /\ [][NextBoard]_vars

(* ------------------------------- claims -------------------------------- *)

Mutations == {"create", "update", "remove"}

\* The indices of the tasks of ts that hold status s.
Holding(ts, s) == {i \in DOMAIN ts : ts[i].status = s}

\* The list ts without its k-th task.
Without(ts, k) == SubSeq(ts, 1, k - 1) \o SubSeq(ts, k + 1, Len(ts))

NoDuplicateIds(ts) == \A i, j \in DOMAIN ts : i # j => ts[i].id # ts[j].id

\* C1: whatever create, update and remove are called with, no list holds two
\* tasks of one id and every task's status is Backlog, InWork or Done.
C1_UniqueIdsRealStatuses ==
    \A t \in Tabs :
        /\ NoDuplicateIds(tasks[t])
        /\ \A i \in DOMAIN tasks[t] : tasks[t][i].status \in RealStatuses

\* C2: update(taskId, newStatus) keeps the length and the order of the list and
\* every task's id, title and description; the task of id taskId gets status
\* newStatus and no other task changes; with no such task the list is the same;
\* the call does not throw.
C2_UpdateChangesOneStatus ==
    [][lastCall'.op = "update" =>
        LET b == tasks[lastCall'.tab]
            a == tasks'[lastCall'.tab]
        IN  /\ Len(a) = Len(b)
            /\ \A i \in DOMAIN b :
                /\ a[i].id = b[i].id
                /\ a[i].title = b[i].title
                /\ a[i].description = b[i].description
                /\ a[i].status = IF b[i].id = lastCall'.taskId
                                 THEN lastCall'.status ELSE b[i].status
            /\ Cardinality({i \in DOMAIN b : a[i] # b[i]}) <= 1
            /\ (lastCall'.taskId \notin Ids(b) => a = b)
            /\ ~lastCall'.threw]_vars

\* A call of update that found its task among at least two and gave it another
\* status than it was created with.
C2_Witness ==
    /\ lastCall.op = "update"
    /\ lastCall.found
    /\ lastCall.status # Status.backlog
    /\ Len(tasks[lastCall.tab]) >= 2
    /\ \E i \in DOMAIN tasks[lastCall.tab] :
        /\ tasks[lastCall.tab][i].id = lastCall.taskId
        /\ tasks[lastCall.tab][i].status = lastCall.status

\* C3: create(title, description) puts one new task in front of the unchanged
\* old list: it has that title and description, status Backlog and an id that
\* was never in the list before; so the list is always newest first.
C3_CreatePrependsFresh ==
    /\ [][lastCall'.op = "create" =>
            LET b == tasks[lastCall'.tab]
                a == tasks'[lastCall'.tab]
            IN  /\ Len(a) = Len(b) + 1
                /\ a[1].title = lastCall'.title
                /\ a[1].description = lastCall'.description
                /\ a[1].status = Status.backlog
                /\ a[1].id \notin everIds[lastCall'.tab]
                /\ Tail(a) = b]_vars
    /\ [](\A i, j \in DOMAIN tasks[BoardTab] :
            i < j => tasks[BoardTab][i].id > tasks[BoardTab][j].id)

\* A call of create on a list that already held two tasks, which differ in
\* title and in status: the new task is in front of the two, still in order.
C3_Witness ==
    /\ lastCall.op = "create"
    /\ Len(tasks[lastCall.tab]) = 3
    /\ tasks[lastCall.tab][1].id = lastCall.taskId
    /\ tasks[lastCall.tab][2].title # tasks[lastCall.tab][3].title
    /\ tasks[lastCall.tab][2].status # tasks[lastCall.tab][3].status

\* C4: remove(taskId) of a task in the list gives the list without exactly that
\* task, one shorter, the others unchanged and in order; with no such task the
\* list is the same; the call does not throw.
C4_RemoveDropsOne ==
    [][lastCall'.op = "remove" =>
        LET b == tasks[lastCall'.tab]
            a == tasks'[lastCall'.tab]
        IN  /\ lastCall'.taskId \in Ids(b) =>
                /\ Len(a) = Len(b) - 1
                /\ lastCall'.taskId \notin Ids(a)
                /\ \E k \in DOMAIN b : b[k].id = lastCall'.taskId /\ a = Without(b, k)
            /\ (lastCall'.taskId \notin Ids(b) => a = b)
            /\ ~lastCall'.threw]_vars

\* A call of remove that took the middle one of three tasks and left the two
\* others, which differ in title, in their order.
C4_Witness ==
    /\ lastCall.op = "remove"
    /\ lastCall.found
    /\ lastCall.taskId \notin Ids(tasks[lastCall.tab])
    /\ Len(tasks[lastCall.tab]) = 2
    /\ tasks[lastCall.tab][1].id > lastCall.taskId
    /\ lastCall.taskId > tasks[lastCall.tab][2].id
    /\ tasks[lastCall.tab][1].title # tasks[lastCall.tab][2].title

\* C5: in one tab with working storage, after every create, update or remove
\* the list stored under the key is the list in memory, field for field and in
\* order; so the list a restart reads back is the list the tab had.
C5_StoredEqualsMemory ==
    /\ lastCall.op \in Mutations => storage.present
    /\ mode[BoardTab] = "persisting" => Hydrated(storage) = tasks[BoardTab]

\* A restart that read back a list of two tasks, one of them moved on.
C5_Witness ==
    /\ lastCall.op = "load"
    /\ Len(tasks[BoardTab]) >= 2
    /\ \E i \in DOMAIN tasks[BoardTab] : tasks[BoardTab][i].status = Status.done
    /\ \E i \in DOMAIN tasks[BoardTab] : tasks[BoardTab][i].title = ""

\* C6: no gesture on the board calls update or remove with the id of a
\* placeholder card.
C6_PlaceholderNeverPassed ==
    lastCall.op \in {"update", "remove"} => lastCall.taskId \notin phIds

\* C7: the column of each status is the tasks of that status in list order, or
\* one placeholder of status Empty when there are none; the placeholder is in
\* no count; no task of status Empty and no placeholder id is in the list in
\* memory or in the stored list.
C7_ColumnsAndPlaceholder ==
    LET ts == tasks[BoardTab]
        stored == Hydrated(storage)
    IN  /\ mode[BoardTab] = "persisting" =>
            \A s \in RealStatuses :
                IF Holding(ts, s) # {}
                THEN board[s] = SelectSeq(ts, LAMBDA task : task.status = s)
                ELSE /\ Len(board[s]) = 1
                     /\ board[s][1].status = Status.empty
                     /\ board[s][1].id \in phIds
        /\ stats.backlogCount = Cardinality(Holding(ts, Status.backlog))
        /\ stats.inworkCount = Cardinality(Holding(ts, Status.inwork))
        /\ stats.doneCount = Cardinality(Holding(ts, Status.done))
        /\ \A i \in DOMAIN ts : ts[i].status # Status.empty /\ ts[i].id \notin phIds
        /\ \A i \in DOMAIN stored :
                stored[i].status # Status.empty /\ stored[i].id \notin phIds

\* A board with two cards in one column and the placeholder in another,
\* after a placeholder was dragged onto a column.
C7_Witness ==
    /\ mode[BoardTab] = "persisting"
    /\ Len(board[Status.backlog]) = 2
    /\ board[Status.done][1].status = Status.empty
    /\ stats.doneCount = 0
    /\ lastCall.op = "update"
    /\ lastCall.taskId \in phIds

\* The list of the example: two tasks in Backlog, one in work, one done.
ExampleTasks ==
    <<[id |-> 4, title |-> "T", description |-> "D", status |-> Status.backlog],
      [id |-> 3, title |-> "T", description |-> "D", status |-> Status.done],
      [id |-> 2, title |-> "T", description |-> "D", status |-> Status.inwork],
      [id |-> 1, title |-> "T", description |-> "D", status |-> Status.backlog]>>

\* For every list of up to MaxCounted tasks, the tenths that Percent shows are
\* within half a tenth of the exact done / total * 100.  At an exact tie the
\* double decides: 23 of 80 is shown as "28.7", 1 of 16 as "6.3".
PercentNearestTenth ==
    \A total \in 1..MaxCounted : \A done \in 0..total :
        LET shown == Percent(total - done, 0, done)
        IN  /\ shown.text
            /\ 2 * (shown.tenths * total - 1000 * done) <= total
            /\ 2 * (1000 * done - shown.tenths * total) <= total

\* C8: the three counts are the numbers of tasks in Backlog, in work and done,
\* they add up to the length of the list, and percent is done / total * 100
\* to the nearest tenth, the number 0 for the empty list; the example list
\* gives (2, 1, 1) and "25.0".
C8_CountsAndPercent ==
    LET ts == tasks[BoardTab]
        total == Len(ts)
    IN  /\ stats.backlogCount = Cardinality(Holding(ts, Status.backlog))
        /\ stats.inworkCount = Cardinality(Holding(ts, Status.inwork))
        /\ stats.doneCount = Cardinality(Holding(ts, Status.done))
        /\ stats.backlogCount + stats.inworkCount + stats.doneCount = total
        /\ IF total = 0
           THEN stats.percent = [text |-> FALSE, tenths |-> 0]
           ELSE /\ stats.percent.text
                /\ 2 * (stats.percent.tenths * total - 1000 * stats.doneCount) <= total
                /\ 2 * (1000 * stats.doneCount - stats.percent.tenths * total) <= total
        /\ Statistics(ExampleTasks) =
                [backlogCount |-> 2, inworkCount |-> 1, doneCount |-> 1,
                 percent |-> [text |-> TRUE, tenths |-> 250]]
        /\ PercentNearestTenth

\* A board of two tasks, one in work and one done: "50.0" is shown.
C8_Witness ==
    /\ Len(tasks[BoardTab]) = 2
    /\ stats.inworkCount = 1
    /\ stats.doneCount = 1
    /\ stats.percent = [text |-> TRUE, tenths |-> 500]

\* C9: with two tabs on one storage the last writer wins: after a mutation the
\* stored list is the list in memory of the tab that made it, and holds no
\* task another tab created after that tab loaded.
C9_LastWriterWins ==
    lastCall.op \in Mutations =>
        /\ storage.present
        /\ Hydrated(storage) = tasks[lastCall.tab]
        /\ foreign[lastCall.tab] \cap Ids(Hydrated(storage)) = {}

\* A tab mutating after the other tab created a task it never read: the other
\* tab still holds that task, the storage no longer does.
C9_Witness ==
    /\ lastCall.op \in Mutations
    /\ foreign[lastCall.tab] # {}
    /\ \E u \in Tabs : foreign[lastCall.tab] \cap Ids(tasks[u]) # {}

\* C10: when the write of a mutation fails the list in memory still advances,
\* nothing is thrown to the caller, and the next mutation whose write succeeds
\* stores the whole current list.
C10_FailureNotThrown ==
    lastCall.op \in Mutations =>
        LET ts == tasks[lastCall.tab]
        IN  /\ ~lastCall.threw
            /\ lastCall.op = "create" => ts # <<>> /\ ts[1].id = lastCall.taskId
            /\ lastCall.op = "update" /\ lastCall.found =>
                    \E i \in DOMAIN ts :
                        ts[i].id = lastCall.taskId /\ ts[i].status = lastCall.status
            /\ lastCall.op = "remove" => lastCall.taskId \notin Ids(ts)
            /\ mode[lastCall.tab] = "persisting" /\ ~lastCall.threw =>
                    Hydrated(storage) = ts

====
